---- MODULE Spec2Model ----
(***************************************************************************)
(* Model of examples/send_traces.py: the driver loop of the __main__ block *)
(* (lines 84-100), the two tree builders simulate_api_call (39-60) and     *)
(* simulate_background_job (62-77), and the span processor the spans are   *)
(* handed to (BatchSpanProcessor(otlp_exporter), lines 25-31).             *)
(*                                                                         *)
(* The driver is one thread.  pc is the source line it is about to run;    *)
(* "X41" is the exit of the with-scope opened at line 41, and so on.       *)
(* KeyboardInterrupt is raised by Python between any two steps of the main *)
(* thread, so the Interrupt action is enabled at every position.           *)
(***************************************************************************)
EXTENDS Integers, Sequences, FiniteSets, TLC

VARIABLES pc, kind, iter, stack, since, handed, log, exc, cutPc, sigs, out,
          flushCalls, flushResult, buffered, lost, baseExc

\* pc          position of the driver (source line about to run)
\* kind        scenario chosen by the current iteration
\* iter        number of iterations started; the tree number of its spans
\* stack       the open spans, innermost last (the current-span context)
\* since       for each open span, the milliseconds elapsed since it started
\* handed      the closed spans in the order they were handed to the processor
\* log         the on_start and on_end calls the processor received, in order
\* exc         a KeyboardInterrupt is propagating through the try body
\* cutPc       position at which that KeyboardInterrupt was raised
\* sigs        number of interrupt signals issued so far
\* out         what the driver printed
\* flushCalls  number of calls of provider.shutdown()
\* flushResult outcome of the final flush inside the processor
\* buffered    the processor holds handed spans it has not yet exported
\* lost        a delivery of the exporter has failed
\* baseExc     whether the installed SDK records a BaseException on scope exit

vars == <<pc, kind, iter, stack, since, handed, log, exc, cutPc, sigs, out,
          flushCalls, flushResult, buffered, lost, baseExc>>

\* Number of loop iterations (trees) the model lets the driver start.
MaxIter == 2

\* Milliseconds by which a time.sleep() may return later than asked.
MaxLate == 1

\* Number of KeyboardInterrupt signals the environment may issue.
MaxSignals == 2

----------------------------------------------------------------------------
\* Positions of the driver.

ApiPcs == {"L41", "L42", "L43", "L44", "L47", "L48", "L49", "L50", "X47",
           "L53", "L54", "L55", "X53", "L58", "L59", "L60", "X41"}

JobPcs == {"L64", "L65", "L68", "L69", "X68", "L72", "L73", "X72",
           "L76", "L77", "X76", "X64"}

\* The body of the try statement, lines 85-94.
TryPcs == {"L85", "L87", "L89", "L92", "L94"} \cup ApiPcs \cup JobPcs

\* The body of the except clause, lines 97-100.
HandlerPcs == {"L97", "L99", "L99w", "L100"}

\* The process has ended: normally after line 100, or by an exception that
\* left the except clause ("killed") or the try statement ("crashed").
EndPcs == {"done", "killed", "crashed"}

\* The driver's state in the terms of the lifecycle RUNNING, DRAINING, STOPPED.
DriverState ==
  IF pc \in TryPcs THEN "RUNNING"
  ELSE IF pc \in HandlerPcs THEN "DRAINING"
  ELSE "STOPPED"

----------------------------------------------------------------------------
\* The ranges of the simulated durations, in milliseconds.

\* Line 50: random.uniform(0.01, 0.1).
DbMin == 10
DbMax == 100

\* Line 55: random.uniform(0.001, 0.01).
CacheMin == 1
CacheMax == 10

\* Line 69: random.uniform(0.1, 0.3).
FetchMin == 100
FetchMax == 300

\* Line 73: random.uniform(0.2, 0.5).
ProcessMin == 200
ProcessMax == 500

\* Line 77: random.uniform(0.05, 0.15).
StoreMin == 50
StoreMax == 150

\* The lines that sleep inside a span, and the shortest sleep of each.
SleepPcs == {"L50", "L55", "L69", "L73", "L77"}

SleepMin(p) ==
  CASE p = "L50" -> DbMin
    [] p = "L55" -> CacheMin
    [] p = "L69" -> FetchMin
    [] p = "L73" -> ProcessMin
    [] p = "L77" -> StoreMin

----------------------------------------------------------------------------
\* Spans.

NoAttrs == [k \in {} |-> 0]

\* The parent of a root span: no current span in the context.
NoSpan == [tree |-> 0, name |-> "none"]

SpanId(s) == [tree |-> s.tree, name |-> s.name]

\* CurrentSpan of a tracer that ignores the context: every span starts
\* without a parent.
CurrentSpan_Detached == NoSpan

\* The current span of the context, the parent of the next span started.
CurrentSpan == IF stack = <<>> THEN NoSpan ELSE SpanId(stack[Len(stack)])

\* tracer.start_as_current_span(name): a new span, child of the current span,
\* with the SDK's initial status UNSET, no attributes and no events.
NewSpan(name) ==
  [name |-> name, tree |-> iter, parent |-> CurrentSpan,
   status |-> "UNSET", desc |-> "", events |-> <<>>, attrs |-> NoAttrs]

set_attribute(s, k, v) == [s EXCEPT !.attrs = (k :> v) @@ s.attrs]

set_status(s, code, d) == [s EXCEPT !.status = code, !.desc = d]

record_exception(s, e) == [s EXCEPT !.events = Append(s.events, e)]

\* What the processor hears of span s when it starts (on_start) or ends
\* (on_end).
Event(e, s) == [ev |-> e, tree |-> s.tree, name |-> s.name, parent |-> s.parent]

\* The innermost open span, and the open spans with it replaced by s.
Top == stack[Len(stack)]
WithTop(s) == [stack EXCEPT ![Len(stack)] = s]

----------------------------------------------------------------------------
\* What each kind of step leaves alone.

ExporterVars == <<flushCalls, flushResult, buffered, lost>>

\* A step that only moves the driver.
OnlyPc == UNCHANGED <<kind, iter, stack, since, handed, log, exc, cutPc,
                      sigs, out, ExporterVars, baseExc>>

\* A step that changes the open spans.
OnlyStack == UNCHANGED <<kind, iter, handed, exc, cutPc, sigs, out,
                         ExporterVars, baseExc>>

\* A step that closes a span.
OnlyClose == UNCHANGED <<kind, iter, exc, cutPc, sigs, out,
                         flushCalls, flushResult, lost, baseExc>>

\* A step that prints.
OnlyOut == UNCHANGED <<kind, iter, stack, since, handed, log, exc, cutPc, sigs,
                       ExporterVars, baseExc>>

\* A step that lets time pass.
OnlySince == UNCHANGED <<kind, iter, stack, handed, log, exc, cutPc, sigs, out,
                         ExporterVars, baseExc>>

\* The driver runs line `from` and continues at line `to`; no exception is
\* propagating.
Step(from, to) == pc = from /\ ~exc /\ pc' = to

\* with tracer.start_as_current_span(name): the scope is entered.
StartSpan(name) ==
  /\ stack' = Append(stack, NewSpan(name))
  /\ since' = Append(since, 0)
  /\ log' = Append(log, Event("start", NewSpan(name)))

\* The clocks of the open spans after e more milliseconds.
Elapse(e) == [i \in DOMAIN since |-> since[i] + e]

\* time.sleep(random.uniform(lo, hi)), in milliseconds: the draw lies in
\* [lo, hi] and the call returns after the drawn time or up to MaxLate later.
\* The shortest and the longest outcome are kept.
sleep(lo, hi) ==
  /\ \E e \in {lo, hi + MaxLate} : since' = Elapse(e)
  /\ OnlySince

\* A call on an open span (set_attribute, set_status, record_exception):
\* the open spans become `spans`, the processor hears nothing.
Update(spans) == stack' = spans /\ UNCHANGED <<since, log>>

\* The innermost with-scope is left: span.end() hands the span to the
\* processor (on_end), which buffers it, and the context returns to the
\* enclosing span.
EndSpan(s) ==
  /\ handed' = Append(handed, s)
  /\ buffered' = TRUE
  /\ log' = Append(log, Event("end", s))
  /\ stack' = SubSeq(stack, 1, Len(stack) - 1)
  /\ since' = SubSeq(since, 1, Len(since) - 1)

\* The span as a with-scope leaves it when a KeyboardInterrupt passes through.
\* The SDK version is not pinned (line 4): a version whose use_span catches
\* BaseException records the exception and sets ERROR, a version that catches
\* Exception only leaves the span as it is.  Both end the span.
ExitOnInterrupt(s) ==
  IF baseExc
  THEN set_status(record_exception(s, "KeyboardInterrupt"),
                  "ERROR", "KeyboardInterrupt: ")
  ELSE s

----------------------------------------------------------------------------
\* The state when the try statement of line 84 is entered.

Init ==
  /\ pc = "L85"
  /\ kind = "none"
  /\ iter = 0
  /\ stack = <<>>
  /\ since = <<>>
  /\ handed = <<>>
  /\ log = <<>>
  /\ exc = FALSE
  /\ cutPc = "none"
  /\ sigs = 0
  /\ out = <<>>
  /\ flushCalls = 0
  /\ flushResult = "none"
  /\ buffered = FALSE
  /\ lost = FALSE
  /\ baseExc \in BOOLEAN

----------------------------------------------------------------------------
\* The driver loop, lines 85-94.

\* Lines 85-88, 90-91: a new iteration draws its scenario and calls the
\* builder.
Iterate ==
  /\ pc = "L85" /\ ~exc
  /\ iter < MaxIter
  /\ \E api \in BOOLEAN :
       /\ kind' = (IF api THEN "api" ELSE "job")
       /\ pc' = (IF api THEN "L41" ELSE "L64")
  /\ iter' = iter + 1
  /\ UNCHANGED <<stack, since, handed, log, exc, cutPc, sigs, out, ExporterVars,
                 baseExc>>

\* PrintDot with the pause of line 94 inside the else branch: an api iteration
\* goes straight back to the loop head.
PrintDot_NoPause ==
  /\ Step("L89", "L85")
  /\ out' = Append(out, ".")
  /\ OnlyOut

\* Line 89.
PrintDot ==
  /\ Step("L89", "L94")
  /\ out' = Append(out, ".")
  /\ OnlyOut

\* Line 92.
PrintJ ==
  /\ Step("L92", "L94")
  /\ out' = Append(out, "J")
  /\ OnlyOut

\* PrintFails with provider.shutdown() in a finally clause: the failure reaches
\* line 99.
PrintFails_Finally ==
  /\ pc \in {"L89", "L92"} /\ ~exc
  /\ pc' = "L99"
  /\ OnlyPc

\* Lines 89 and 92: print(..., flush=True) raises an OSError (stdout is a
\* closed pipe).  No except clause of the try statement of lines 84-96 matches
\* it, so it leaves the program: lines 97-100 are not run.
PrintFails ==
  /\ pc \in {"L89", "L92"} /\ ~exc
  /\ pc' = "crashed"
  /\ OnlyPc

\* Line 94: the pause between two iterations.
PaceSleep ==
  /\ Step("L94", "L85")
  /\ OnlyPc

----------------------------------------------------------------------------
\* simulate_api_call, lines 39-60.

ApiStartRoot ==
  /\ Step("L41", "L42")
  /\ StartSpan("api-request")
  /\ OnlyStack

ApiSetMethod ==
  /\ Step("L42", "L43")
  /\ Update([stack EXCEPT ![1] = set_attribute(@, "http.method", "GET")])
  /\ OnlyStack

ApiSetUrl ==
  /\ Step("L43", "L44")
  /\ Update([stack EXCEPT ![1] = set_attribute(@, "http.url", "/api/users")])
  /\ OnlyStack

ApiSetStatusCode ==
  /\ Step("L44", "L47")
  /\ Update([stack EXCEPT ![1] = set_attribute(@, "http.status_code", 200)])
  /\ OnlyStack

\* DbStart with the db-query block left out.
DbStart_Skip ==
  /\ Step("L47", "L53")
  /\ UNCHANGED <<stack, since, log>>
  /\ OnlyStack

DbStart ==
  /\ Step("L47", "L48")
  /\ StartSpan("db-query")
  /\ OnlyStack

\* DbSetSystem with the attribute under another key.
DbSetSystem_Renamed ==
  /\ Step("L48", "L49")
  /\ Update(WithTop(set_attribute(Top, "db.type", "postgresql")))
  /\ OnlyStack

DbSetSystem ==
  /\ Step("L48", "L49")
  /\ Update(WithTop(set_attribute(Top, "db.system", "postgresql")))
  /\ OnlyStack

DbSetStatement ==
  /\ Step("L49", "L50")
  /\ Update(WithTop(set_attribute(Top, "db.statement", "SELECT * FROM users")))
  /\ OnlyStack

\* DbSleep with the range of the cache lookup, uniform(0.001, 0.01).
DbSleep_Short ==
  /\ Step("L50", "X47")
  /\ sleep(CacheMin, CacheMax)

\* Line 50.
DbSleep ==
  /\ Step("L50", "X47")
  /\ sleep(DbMin, DbMax)

DbEnd ==
  /\ Step("X47", "L53")
  /\ EndSpan(Top)
  /\ OnlyClose

CacheStart ==
  /\ Step("L53", "L54")
  /\ StartSpan("cache-lookup")
  /\ OnlyStack

CacheSetHit ==
  /\ Step("L54", "L55")
  /\ \E hit \in BOOLEAN : Update(WithTop(set_attribute(Top, "cache.hit", hit)))
  /\ OnlyStack

CacheSleep ==
  /\ Step("L55", "X53")
  /\ sleep(CacheMin, CacheMax)

CacheEnd ==
  /\ Step("X53", "L58")
  /\ EndSpan(Top)
  /\ OnlyClose

\* Line 58: random.random() < 0.2.
ApiDrawError ==
  /\ pc = "L58" /\ ~exc
  /\ \E err \in BOOLEAN : pc' = (IF err THEN "L59" ELSE "X41")
  /\ OnlyPc

\* ApiSetError that also turns the response status into a server error.
ApiSetError_500 ==
  /\ Step("L59", "L60")
  /\ Update([stack EXCEPT ![1] = set_attribute(set_status(@, "ERROR", "Random error"),
                                               "http.status_code", 500)])
  /\ OnlyStack

ApiSetError ==
  /\ Step("L59", "L60")
  /\ Update([stack EXCEPT ![1] = set_status(@, "ERROR", "Random error")])
  /\ OnlyStack

\* ApiRecordException with the call of line 60 left out.
ApiRecordException_Skip ==
  /\ Step("L60", "X41")
  /\ UNCHANGED <<stack, since, log>>
  /\ OnlyStack

ApiRecordException ==
  /\ Step("L60", "X41")
  /\ Update([stack EXCEPT ![1] = record_exception(@, "Something went wrong")])
  /\ OnlyStack

ApiEndRoot ==
  /\ Step("X41", "L89")
  /\ EndSpan(Top)
  /\ OnlyClose

----------------------------------------------------------------------------
\* simulate_background_job, lines 62-77.

JobStartRoot ==
  /\ Step("L64", "L65")
  /\ StartSpan("background-job")
  /\ OnlyStack

JobSetName ==
  /\ Step("L65", "L68")
  /\ Update([stack EXCEPT ![1] = set_attribute(@, "job.name", "data-processing")])
  /\ OnlyStack

FetchStart ==
  /\ Step("L68", "L69")
  /\ StartSpan("fetch-data")
  /\ OnlyStack

FetchSleep ==
  /\ Step("L69", "X68")
  /\ sleep(FetchMin, FetchMax)

FetchEnd ==
  /\ Step("X68", "L72")
  /\ EndSpan(Top)
  /\ OnlyClose

\* ProcessStart with the process-data block left out.
ProcessStart_Skip ==
  /\ Step("L72", "L76")
  /\ UNCHANGED <<stack, since, log>>
  /\ OnlyStack

ProcessStart ==
  /\ Step("L72", "L73")
  /\ StartSpan("process-data")
  /\ OnlyStack

ProcessSleep ==
  /\ Step("L73", "X72")
  /\ sleep(ProcessMin, ProcessMax)

ProcessEnd ==
  /\ Step("X72", "L76")
  /\ EndSpan(Top)
  /\ OnlyClose

StoreStart ==
  /\ Step("L76", "L77")
  /\ StartSpan("store-results")
  /\ OnlyStack

StoreSleep ==
  /\ Step("L77", "X76")
  /\ sleep(StoreMin, StoreMax)

StoreEnd ==
  /\ Step("X76", "X64")
  /\ EndSpan(Top)
  /\ OnlyClose

\* JobEndRoot with an error marking on the job root, as on the api root.
JobEndRoot_Error ==
  /\ Step("X64", "L92")
  /\ EndSpan(set_status(Top, "ERROR", "Random error"))
  /\ OnlyClose

JobEndRoot ==
  /\ Step("X64", "L92")
  /\ EndSpan(Top)
  /\ OnlyClose

----------------------------------------------------------------------------
\* Cancellation, lines 84 and 96-100.

\* A SIGINT arrives: Python raises KeyboardInterrupt in the main thread at
\* its current position; a time.sleep() it arrives in returns early, at its
\* start or short of the least time it could have been asked for.  Inside
\* the try body the exception starts to propagate towards the except clause
\* of line 96; inside the except clause nothing catches it and the process
\* ends with the traceback.
Interrupt ==
  /\ sigs < MaxSignals
  /\ pc \notin EndPcs
  /\ sigs' = sigs + 1
  /\ IF pc \in TryPcs
     THEN /\ exc' = TRUE
          /\ cutPc' = (IF exc THEN cutPc ELSE pc)
          /\ pc' = pc
     ELSE /\ pc' = "killed"
          /\ UNCHANGED <<exc, cutPc>>
  /\ IF pc \in SleepPcs /\ ~exc
     THEN \E e \in {0, SleepMin(pc) - 1} : since' = Elapse(e)
     ELSE since' = since
  /\ UNCHANGED <<kind, iter, stack, handed, log, out, ExporterVars, baseExc>>

\* Unwind with a root that is not a with-scope (a span started by hand and
\* ended on the normal path only): the innermost span is ended, the others
\* are dropped open.
Unwind_LeakOuter ==
  /\ pc \in TryPcs /\ exc
  /\ stack # <<>>
  /\ handed' = Append(handed, ExitOnInterrupt(Top))
  /\ log' = Append(log, Event("end", ExitOnInterrupt(Top)))
  /\ buffered' = TRUE
  /\ stack' = <<>>
  /\ since' = <<>>
  /\ UNCHANGED pc
  /\ OnlyClose

\* Unwind with the scopes left in the wrong order: the outermost span is
\* ended first.
Unwind_OuterFirst ==
  /\ pc \in TryPcs /\ exc
  /\ stack # <<>>
  /\ handed' = Append(handed, ExitOnInterrupt(stack[1]))
  /\ log' = Append(log, Event("end", ExitOnInterrupt(stack[1])))
  /\ buffered' = TRUE
  /\ stack' = Tail(stack)
  /\ since' = Tail(since)
  /\ UNCHANGED pc
  /\ OnlyClose

\* The KeyboardInterrupt leaves the innermost open with-scope of lines 41-77:
\* the scope's exit ends its span.
Unwind ==
  /\ pc \in TryPcs /\ exc
  /\ stack # <<>>
  /\ EndSpan(ExitOnInterrupt(Top))
  /\ UNCHANGED pc
  /\ OnlyClose

\* Catch with spans that are not scoped by a with statement: the interrupt
\* reaches the except clause while spans are open.
Catch_Early ==
  /\ pc \in TryPcs /\ exc
  /\ pc' = "L97"
  /\ exc' = FALSE
  /\ UNCHANGED <<kind, iter, stack, since, handed, log, cutPc, sigs, out, ExporterVars,
                 baseExc>>

\* Catch with the try statement inside the loop: the interrupt is swallowed
\* and the loop goes on.
Catch_Resume ==
  /\ pc \in TryPcs /\ exc
  /\ stack = <<>>
  /\ pc' = "L85"
  /\ exc' = FALSE
  /\ UNCHANGED <<kind, iter, stack, since, handed, log, cutPc, sigs, out, ExporterVars,
                 baseExc>>

\* Line 96: the KeyboardInterrupt has left every with-scope and reaches the
\* except clause.
Catch ==
  /\ pc \in TryPcs /\ exc
  /\ stack = <<>>
  /\ pc' = "L97"
  /\ exc' = FALSE
  /\ UNCHANGED <<kind, iter, stack, since, handed, log, cutPc, sigs, out, ExporterVars,
                 baseExc>>

\* PrintShuttingDown with a flush of its own before the one of line 99.
PrintShuttingDown_Flush ==
  /\ Step("L97", "L99")
  /\ out' = Append(out, "Shutting down...")
  /\ flushCalls' = flushCalls + 1
  /\ UNCHANGED <<kind, iter, stack, since, handed, log, exc, cutPc, sigs,
                 flushResult, buffered, lost, baseExc>>

\* Line 97.
PrintShuttingDown ==
  /\ Step("L97", "L99")
  /\ out' = Append(out, "Shutting down...")
  /\ OnlyOut

\* Line 99: provider.shutdown() is called.
ShutdownCall ==
  /\ Step("L99", "L99w")
  /\ flushCalls' = flushCalls + 1
  /\ UNCHANGED <<kind, iter, stack, since, handed, log, exc, cutPc, sigs, out,
                 flushResult, buffered, lost, baseExc>>

\* Line 99: provider.shutdown() returns None once the processor has tried to
\* deliver what was still buffered; whether that worked stays inside the
\* processor and its log.
ShutdownReturn ==
  /\ Step("L99w", "L100")
  /\ \E ok \in BOOLEAN :
       /\ flushResult' = (IF ok \/ ~buffered THEN "ok" ELSE "failed")
       /\ lost' = (lost \/ (buffered /\ ~ok))
  /\ buffered' = FALSE
  /\ UNCHANGED <<kind, iter, stack, since, handed, log, exc, cutPc, sigs, out,
                 flushCalls, baseExc>>

\* PrintDone with the except clause inside the loop: the driver goes back to
\* the loop after the flush.
PrintDone_Loop ==
  /\ Step("L100", "L85")
  /\ out' = Append(out, "Done!")
  /\ OnlyOut

\* PrintDone reporting what the flush did.
PrintDone_Report ==
  /\ Step("L100", "done")
  /\ out' = Append(out, IF flushResult = "ok" THEN "Done!" ELSE "Not all spans delivered")
  /\ OnlyOut

\* Line 100.
PrintDone ==
  /\ Step("L100", "done")
  /\ out' = Append(out, "Done!")
  /\ OnlyOut

----------------------------------------------------------------------------
\* The span processor of lines 25-31.

\* ExportBatch of a processor that exports inside span.end() and lets the
\* exporter's failure out: the exception is no KeyboardInterrupt, leaves the
\* try statement and ends the process.
ExportBatch_Raise ==
  /\ pc \notin EndPcs
  /\ flushResult = "none"
  /\ buffered
  /\ buffered' = FALSE
  /\ \E ok \in BOOLEAN :
       /\ lost' = (lost \/ ~ok)
       /\ pc' = (IF ok THEN pc ELSE "killed")
  /\ UNCHANGED <<kind, iter, stack, since, handed, log, exc, cutPc, sigs, out,
                 flushCalls, flushResult, baseExc>>

\* The worker thread of BatchSpanProcessor takes the buffered spans and calls
\* the OTLP exporter, which delivers them or fails; a failure is logged in the
\* worker thread.
ExportBatch ==
  /\ pc \notin EndPcs
  /\ flushResult = "none"
  /\ buffered
  /\ buffered' = FALSE
  /\ \E ok \in BOOLEAN : lost' = (lost \/ ~ok)
  /\ UNCHANGED <<pc, kind, iter, stack, since, handed, log, exc, cutPc, sigs, out,
                 flushCalls, flushResult, baseExc>>

----------------------------------------------------------------------------

\* The steps of the main thread.
DriverStep ==
  \/ Iterate \/ PrintDot \/ PrintJ \/ PaceSleep
  \/ ApiStartRoot \/ ApiSetMethod \/ ApiSetUrl \/ ApiSetStatusCode
  \/ DbStart \/ DbSetSystem \/ DbSetStatement \/ DbSleep \/ DbEnd
  \/ CacheStart \/ CacheSetHit \/ CacheSleep \/ CacheEnd
  \/ ApiDrawError \/ ApiSetError \/ ApiRecordException \/ ApiEndRoot
  \/ JobStartRoot \/ JobSetName
  \/ FetchStart \/ FetchSleep \/ FetchEnd
  \/ ProcessStart \/ ProcessSleep \/ ProcessEnd
  \/ StoreStart \/ StoreSleep \/ StoreEnd
  \/ JobEndRoot
  \/ Unwind \/ Catch
  \/ PrintShuttingDown \/ ShutdownCall \/ ShutdownReturn \/ PrintDone

Next == DriverStep \/ Interrupt \/ ExportBatch \/ PrintFails

Spec == Init /\ [][Next]_vars

\* The main thread keeps running while it has a step to take; sleeps and the
\* shutdown call return.  Signals and the export worker are not forced.
FairSpec == Spec /\ WF_vars(DriverStep)

----------------------------------------------------------------------------
\* Vocabulary of the properties.

IsRoot(s) == s.parent = NoSpan

ApiChildren == <<"db-query", "cache-lookup">>

JobChildren == <<"fetch-data", "process-data", "store-results">>

RootName(k) == IF k = "api" THEN "api-request" ELSE "background-job"

ChildrenOf(k) == IF k = "api" THEN ApiChildren ELSE JobChildren

\* The spans of tree t in the order they were handed over, and their names.
HandedOf(t) == SelectSeq(handed, LAMBDA s : s.tree = t)

NamesOf(q) == [i \in 1..Len(q) |-> q[i].name]

ChildNamesOf(t) == NamesOf(SelectSeq(handed, LAMBDA s : s.tree = t /\ ~IsRoot(s)))

\* The positions inside a builder at which its root span is open.
MidPcs == (ApiPcs \ {"L41"}) \cup (JobPcs \ {"L64"})

\* The children a builder has started when it stands at position p.
ChildrenStartedAt(p) ==
  IF p \in {"L42", "L43", "L44", "L47"} THEN <<>>
  ELSE IF p \in {"L48", "L49", "L50", "X47", "L53"} THEN <<"db-query">>
  ELSE IF p \in ApiPcs THEN ApiChildren
  ELSE IF p \in {"L65", "L68"} THEN <<>>
  ELSE IF p \in {"L69", "X68", "L72"} THEN <<"fetch-data">>
  ELSE IF p \in {"L73", "X72", "L76"} THEN <<"fetch-data", "process-data">>
  ELSE JobChildren

\* The tree the KeyboardInterrupt cut: the one under construction when the
\* signal was raised inside a builder.
IsCut(t) == t = iter /\ cutPc \in MidPcs

\* Position in the log of the event e of span (t, n); 0 when there is none.
At(e, t, n) ==
  IF \E i \in DOMAIN log : log[i].ev = e /\ log[i].tree = t /\ log[i].name = n
  THEN CHOOSE i \in DOMAIN log :
         log[i].ev = e /\ log[i].tree = t /\ log[i].name = n
  ELSE 0

----------------------------------------------------------------------------
\* C1 (as stated): a KeyboardInterrupt raised while a tree is under
\* construction does not truncate it: when the driver is STOPPED the tree of
\* that iteration has its root and all its children handed over.
C1_NeverTruncated ==
  (DriverState = "STOPPED" /\ cutPc \in MidPcs)
    => NamesOf(HandedOf(iter)) = ChildrenOf(kind) \o <<RootName(kind)>>

\* C1 (amended): a KeyboardInterrupt raised while a tree is under construction
\* cuts the tree at that position: once the driver has left RUNNING no span is
\* open, and the tree handed over consists of exactly the children started
\* before the interrupt, in order, followed by the root.
C1_CutAtInterrupt ==
  (DriverState # "RUNNING" /\ cutPc \in MidPcs)
    => /\ stack = <<>>
       /\ NamesOf(HandedOf(iter))
            = ChildrenStartedAt(cutPc) \o <<RootName(kind)>>

\* A tree cut inside its first child has been handed over and the driver has
\* stopped.
C1_Witness ==
  /\ DriverState = "STOPPED"
  /\ cutPc = "L50"
  /\ NamesOf(HandedOf(iter)) = <<"db-query", "api-request">>

----------------------------------------------------------------------------
\* C2 (as stated): whenever the run has been ended by cancellation,
\* provider.shutdown() has been called exactly once.
C2_ExactlyOnce == (DriverState = "STOPPED" /\ sigs >= 1) => flushCalls = 1

\* C2 (amended): the driver calls provider.shutdown() at most once, never
\* while RUNNING and only after a KeyboardInterrupt has reached the except
\* clause; it has called it exactly once when the except clause ran to its
\* end, and a further signal in the except clause can end the run before the
\* call is made.
C2_AtMostOnce ==
  /\ [](/\ flushCalls <= 1
        /\ (DriverState = "RUNNING" => flushCalls = 0)
        /\ (flushCalls = 1 => sigs >= 1 /\ cutPc # "none")
        /\ (pc = "done" => flushCalls = 1))
  /\ [][flushCalls' # flushCalls => DriverState = "DRAINING"]_vars

\* A run that two signals ended, the second one after the call.
C2_Witness == pc = "killed" /\ flushCalls = 1 /\ sigs = 2

----------------------------------------------------------------------------
\* C3: in every tree a child starts after its root has started and before it
\* has ended, every child that started ends before the root ends, and the root
\* is the last span of its tree handed over.
C3_Containment ==
  /\ \A i \in DOMAIN log :
       (log[i].ev = "start" /\ log[i].parent # NoSpan)
         => /\ At("start", log[i].tree, log[i].parent.name) \in 1..(i - 1)
            /\ At("end", log[i].tree, log[i].parent.name) = 0
                 \/ At("end", log[i].tree, log[i].parent.name) > i
  /\ \A j \in DOMAIN log :
       (log[j].ev = "end" /\ log[j].parent = NoSpan)
         => \A i \in DOMAIN log :
              (log[i].ev = "start" /\ log[i].tree = log[j].tree /\ i # At("start", log[j].tree, log[j].name))
                => /\ i < j
                   /\ At("end", log[i].tree, log[i].name) \in (i + 1)..(j - 1)
  /\ \A i, j \in DOMAIN handed :
       (i < j /\ handed[i].tree = handed[j].tree) => ~IsRoot(handed[i])

\* A complete job tree and, after it, a tree cut inside a child have been
\* handed over.
C3_Witness ==
  /\ Len(handed) = 6
  /\ NamesOf(handed) = JobChildren \o <<"background-job", "db-query", "api-request">>

----------------------------------------------------------------------------
----------------------------------------------------------------------------
\* q is an initial part of r.
IsPrefix(q, r) == Len(q) <= Len(r) /\ q = SubSeq(r, 1, Len(q))

\* The set of the elements of a sequence.
Range(q) == {q[i] : i \in DOMAIN q}

\* The roots handed over that are named n.
RootsNamed(n) == {j \in DOMAIN handed : handed[j].name = n /\ IsRoot(handed[j])}

\* C5 (as stated): every api-request root handed over has exactly the two
\* children db-query and cache-lookup, handed over before it in that order.
C5_ExactlyTwoChildren ==
  \A j \in RootsNamed("api-request") :
    ChildNamesOf(handed[j].tree) = ApiChildren

\* C5 (amended): an api-request tree that no KeyboardInterrupt cut has exactly
\* the children db-query and cache-lookup; a tree that was cut has an initial
\* part of them (none, db-query, or both).  In every tree db-query has ended
\* before cache-lookup starts and every child has ended before the root ends.
C5_TwoChildrenUnlessCut ==
  \A j \in RootsNamed("api-request") :
    LET t == handed[j].tree
    IN  /\ IF IsCut(t)
           THEN IsPrefix(ChildNamesOf(t), ApiChildren)
           ELSE ChildNamesOf(t) = ApiChildren
        /\ At("start", t, "cache-lookup") # 0
             => At("end", t, "db-query") \in 1..(At("start", t, "cache-lookup") - 1)
        /\ \A n \in Range(ChildNamesOf(t)) :
             At("end", t, n) \in 1..(At("end", t, "api-request") - 1)

\* A complete api-request tree and, after it, one cut inside db-query.
C5_Witness ==
  NamesOf(handed) = ApiChildren \o <<"api-request", "db-query", "api-request">>

----------------------------------------------------------------------------
\* C6 (as stated): every background-job root handed over has exactly the
\* three children fetch-data, process-data, store-results, in that order.
C6_ExactlyThreeChildren ==
  \A j \in RootsNamed("background-job") :
    ChildNamesOf(handed[j].tree) = JobChildren

\* C6 (amended): a background-job tree that no KeyboardInterrupt cut has
\* exactly the children fetch-data, process-data, store-results in that order;
\* a tree that was cut has an initial part of them.  In every tree each child
\* has ended before the next one starts.
C6_ThreeChildrenUnlessCut ==
  \A j \in RootsNamed("background-job") :
    LET t == handed[j].tree
        c == ChildNamesOf(t)
    IN  /\ IF IsCut(t) THEN IsPrefix(c, JobChildren) ELSE c = JobChildren
        /\ \A i \in 1..(Len(c) - 1) :
             At("end", t, c[i]) \in 1..(At("start", t, c[i + 1]) - 1)

\* A complete background-job tree and, after it, one cut inside process-data.
C6_Witness ==
  NamesOf(handed) = JobChildren \o <<"background-job", "fetch-data",
                                     "process-data", "background-job">>

----------------------------------------------------------------------------
\* C7 (as stated): every api-request root handed over has status OK or ERROR,
\* and an ERROR root carries the message and the recorded exception.
C7_OkOrError ==
  \A j \in RootsNamed("api-request") :
    /\ handed[j].status \in {"OK", "ERROR"}
    /\ handed[j].status = "ERROR"
         => /\ handed[j].desc = "Random error"
            /\ "Something went wrong" \in Range(handed[j].events)

\* C7 (amended): no api-request root is handed over with status OK.  A root
\* whose tree no KeyboardInterrupt cut is handed over either with status ERROR,
\* the message "Random error" and the one recorded exception, or with the
\* status left UNSET, no message and no recorded exception.
C7_ErrorOrUnset ==
  \A j \in RootsNamed("api-request") :
    /\ handed[j].status # "OK"
    /\ ~IsCut(handed[j].tree)
         => \/ /\ handed[j].status = "ERROR"
               /\ handed[j].desc = "Random error"
               /\ handed[j].events = <<"Something went wrong">>
            \/ /\ handed[j].status = "UNSET"
               /\ handed[j].desc = ""
               /\ handed[j].events = <<>>

\* Two api-request trees were built to the end, one marked ERROR and one not.
C7_Witness ==
  /\ cutPc = "none"
  /\ \E i, j \in RootsNamed("api-request") :
       handed[i].status = "ERROR" /\ handed[j].status = "UNSET"

----------------------------------------------------------------------------
----------------------------------------------------------------------------
\* C9 (as stated): the driver's report tells a failed final flush from a
\* successful one: it ends with "Done!" only when the flush delivered
\* everything.
C9_FailureReported ==
  pc = "done" => (out[Len(out)] = "Done!" <=> flushResult = "ok")

\* C9 (amended): the driver does not report the outcome of the final flush:
\* provider.shutdown() returns nothing, and the driver prints "Shutting
\* down..." and "Done!" whether the flush delivered everything or not.  A
\* failed flush raises nothing: the step that fails moves the driver to line
\* 100 like one that succeeds.
C9_OutcomeNotReported ==
  /\ [](pc = "done"
          => /\ flushResult \in {"ok", "failed"}
             /\ Len(out) >= 2
             /\ out[Len(out)] = "Done!"
             /\ out[Len(out) - 1] = "Shutting down...")
  /\ [][flushResult' # flushResult => (pc' = "L100" /\ out' = out)]_vars

\* A run whose final flush failed and that ended after line 100.
C9_Witness == pc = "done" /\ flushResult = "failed"

----------------------------------------------------------------------------
\* C10 (as stated): when the driver has stopped after one cancellation signal,
\* the tree that was in flight has been finished, the flush has been called
\* and its outcome awaited.
C10_FinishFlushStop ==
  (DriverState = "STOPPED" /\ sigs = 1)
    => /\ cutPc \in MidPcs
            => NamesOf(HandedOf(iter)) = ChildrenOf(kind) \o <<RootName(kind)>>
       /\ flushCalls = 1
       /\ flushResult # "none"

\* C10 (amended): after a signal in any state the driver eventually is
\* STOPPED.  The open spans of a tree in flight are ended, the tree is not
\* finished; when the except clause runs to its end the flush was called once
\* and has returned, and a further signal inside the except clause stops the
\* driver at once.
C10_EventuallyStopped ==
  /\ (sigs > 0) ~> (DriverState = "STOPPED")
  /\ [](pc = "done" => (stack = <<>> /\ flushCalls = 1 /\ flushResult # "none"))
  /\ [][(sigs' > sigs /\ DriverState = "DRAINING") => pc' = "killed"]_vars

\* A run cancelled during the pause between two iterations, stopped after the
\* flush.
C10_Witness == pc = "done" /\ cutPc = "L94" /\ flushResult = "ok"


----------------------------------------------------------------------------
\* The child span that is open when a builder stands at position p; "none"
\* when only the root is open.
OpenChildAt(p) ==
  IF p \in {"L48", "L49", "L50", "X47"} THEN "db-query"
  ELSE IF p \in {"L54", "L55", "X53"} THEN "cache-lookup"
  ELSE IF p \in {"L69", "X68"} THEN "fetch-data"
  ELSE IF p \in {"L73", "X72"} THEN "process-data"
  ELSE IF p \in {"L77", "X76"} THEN "store-results"
  ELSE "none"

\* Span s was open when the KeyboardInterrupt was raised, so the interrupt
\* ended it.
EndedByInterrupt(s) ==
  /\ IsCut(s.tree)
  /\ IsRoot(s) \/ s.name = OpenChildAt(cutPc)

\* C11 (as stated): a span handed over with status ERROR is an api-request
\* root.
C11_ErrorOnlyOnApiRoot ==
  \A j \in DOMAIN handed :
    handed[j].status = "ERROR" => handed[j].name = "api-request"

\* C11 (amended): the builders mark only an api-request root ERROR.  Every
\* span of a background-job tree and every child of an api-request tree that
\* ends on the normal path is handed over with status UNSET and no recorded
\* exception; such a span is handed over with ERROR only when a
\* KeyboardInterrupt ended it and the SDK records a BaseException on scope
\* exit, and then the message and the recorded exception are the interrupt's.
C11_ErrorOnlyByBuilderOnApiRoot ==
  \A j \in DOMAIN handed :
    handed[j].name # "api-request"
      => \/ /\ handed[j].status = "UNSET"
            /\ handed[j].events = <<>>
         \/ /\ handed[j].status = "ERROR"
            /\ handed[j].desc = "KeyboardInterrupt: "
            /\ handed[j].events = <<"KeyboardInterrupt">>
            /\ EndedByInterrupt(handed[j])
            /\ baseExc

\* A background-job tree built to the end, then an api-request tree marked
\* ERROR by line 59.
C11_Witness ==
  /\ cutPc = "none"
  /\ Len(handed) = 7
  /\ NamesOf(handed) = JobChildren \o <<"background-job">> \o ApiChildren
                         \o <<"api-request">>
  /\ handed[7].status = "ERROR"


----------------------------------------------------------------------------
\* C12 (as stated): every api-request root handed over carries
\* http.status_code = 200, marked ERROR or not.
C12_StatusCodeAlways200 ==
  \A j \in RootsNamed("api-request") :
    /\ "http.status_code" \in DOMAIN handed[j].attrs
    /\ handed[j].attrs["http.status_code"] = 200

\* C12 (amended): an api-request root handed over carries http.status_code =
\* 200, marked ERROR or not, unless a KeyboardInterrupt cut its tree before
\* line 44 had run; such a root carries no http.status_code at all.  No root
\* carries another value.
C12_StatusCode200UnlessCut ==
  \A j \in RootsNamed("api-request") :
    IF IsCut(handed[j].tree) /\ cutPc \in {"L42", "L43", "L44"}
    THEN "http.status_code" \notin DOMAIN handed[j].attrs
    ELSE /\ "http.status_code" \in DOMAIN handed[j].attrs
         /\ handed[j].attrs["http.status_code"] = 200

\* Two api-request roots built to the end, one marked ERROR by line 59 and one
\* not, both with status code 200.
C12_Witness ==
  /\ cutPc = "none"
  /\ Len(handed) = 6
  /\ handed[3].name = "api-request" /\ handed[3].status = "UNSET"
  /\ handed[6].name = "api-request" /\ handed[6].status = "ERROR"
  /\ handed[3].attrs["http.status_code"] = 200
  /\ handed[6].attrs["http.status_code"] = 200

----------------------------------------------------------------------------
\* The attributes of each span once its builder has set them all.
AllKeys(n) ==
  IF n = "api-request" THEN {"http.method", "http.url", "http.status_code"}
  ELSE IF n = "db-query" THEN {"db.system", "db.statement"}
  ELSE IF n = "cache-lookup" THEN {"cache.hit"}
  ELSE IF n = "background-job" THEN {"job.name"}
  ELSE {}

\* The attributes span n carries when its builder stands at position p.
KeysAt(p, n) ==
  IF n = "api-request" /\ p = "L42" THEN {}
  ELSE IF n = "api-request" /\ p = "L43" THEN {"http.method"}
  ELSE IF n = "api-request" /\ p = "L44" THEN {"http.method", "http.url"}
  ELSE IF n = "db-query" /\ p = "L48" THEN {}
  ELSE IF n = "db-query" /\ p = "L49" THEN {"db.system"}
  ELSE IF n = "cache-lookup" /\ p = "L54" THEN {}
  ELSE IF n = "background-job" /\ p = "L65" THEN {}
  ELSE AllKeys(n)

\* C13 (as stated): every db-query handed over carries db.system and
\* db.statement, every cache-lookup a boolean cache.hit, every api-request
\* root http.method, http.url and http.status_code.
C13_AttributesPresent ==
  \A j \in DOMAIN handed :
    /\ handed[j].name \in {"db-query", "cache-lookup", "api-request"}
         => AllKeys(handed[j].name) \subseteq DOMAIN handed[j].attrs
    /\ handed[j].name = "cache-lookup"
         => handed[j].attrs["cache.hit"] \in BOOLEAN

\* C13 (amended): a span that ends on the normal path carries all the
\* attributes of its kind, cache.hit being a boolean.  A span that a
\* KeyboardInterrupt ended carries the attributes set before the line at
\* which the interrupt was raised, which can be some or none of them.
C13_AttributesSetSoFar ==
  \A j \in DOMAIN handed :
    /\ DOMAIN handed[j].attrs
         = (IF EndedByInterrupt(handed[j])
            THEN KeysAt(cutPc, handed[j].name)
            ELSE AllKeys(handed[j].name))
    /\ "cache.hit" \in DOMAIN handed[j].attrs
         => handed[j].attrs["cache.hit"] \in BOOLEAN

\* An api-request tree built to the end, then one cut at line 49: its
\* db-query carries db.system only.
C13_Witness ==
  /\ Len(handed) = 5
  /\ cutPc = "L49"
  /\ DOMAIN handed[1].attrs = {"db.system", "db.statement"}
  /\ DOMAIN handed[2].attrs = {"cache.hit"}
  /\ DOMAIN handed[4].attrs = {"db.system"}
  /\ DOMAIN handed[5].attrs = {"http.method", "http.url", "http.status_code"}


----------------------------------------------------------------------------
\* The spans open or handed over, each with the parent it has now.
AllSpans == Range(stack) \cup Range(handed)

ChildNames == Range(ApiChildren) \cup Range(JobChildren)

\* The root a child of that name belongs under.
RootOver(n) == IF n \in Range(ApiChildren) THEN "api-request" ELSE "background-job"

\* C14: a span is a root exactly when it is named api-request or
\* background-job.  Every other span was started with the root of its own tree
\* as parent (cache-lookup under api-request, not under db-query), that root
\* was open and was the root of the tree under construction at that moment,
\* and the parent a span has later is the one it was started with.
C14_ParentIsOpenRoot ==
  /\ \A i \in DOMAIN log :
       log[i].ev = "start"
         => IF log[i].name \in ChildNames
            THEN /\ log[i].parent = [tree |-> log[i].tree, name |-> RootOver(log[i].name)]
                 /\ At("start", log[i].tree, log[i].parent.name) \in 1..(i - 1)
                 /\ \A k \in 1..i :
                      ~(log[k].ev = "end" /\ log[k].tree = log[i].tree
                          /\ log[k].name = log[i].parent.name)
                 /\ \A k \in 1..i : log[k].tree <= log[i].tree
            ELSE log[i].parent = NoSpan
  /\ \A s \in AllSpans :
       /\ At("start", s.tree, s.name) # 0
       /\ s.parent = log[At("start", s.tree, s.name)].parent
  /\ \A i, k \in DOMAIN log :
       (log[i].ev = "start" /\ log[k].ev = "start" /\ i # k)
         => SpanId(log[i]) # SpanId(log[k])

\* The second tree is an api-request tree and its cache-lookup, started after
\* db-query had ended, was handed over with api-request as parent.
C14_Witness ==
  /\ Len(handed) = 6
  /\ handed[6].name = "cache-lookup"
  /\ handed[6].parent = [tree |-> 2, name |-> "api-request"]
  /\ handed[5].name = "db-query"

----------------------------------------------------------------------------
----------------------------------------------------------------------------
\* The spans started so far, by identity.
Started == {SpanId(log[i]) : i \in {k \in DOMAIN log : log[k].ev = "start"}}

\* C17: when provider.shutdown() is called, and from the moment the except
\* clause is entered, no span is open: every span started has been ended and
\* handed to the processor, whatever line the KeyboardInterrupt was raised at.
C17_NothingOpenAtShutdown ==
  /\ []((pc \in HandlerPcs \cup {"done", "killed"} \/ flushCalls > 0)
          => /\ stack = <<>>
             /\ \A i \in DOMAIN log :
                  log[i].ev = "start"
                    => At("end", log[i].tree, log[i].name) > i
             /\ {SpanId(handed[j]) : j \in DOMAIN handed} = Started
             /\ Len(handed) = Cardinality(Started))
  /\ [][flushCalls' # flushCalls
          => (stack = <<>> /\ Len(handed) = Cardinality(Started))]_vars

\* The interrupt was raised inside cache-lookup of the first tree; shutdown
\* has been called with the three spans started handed over.
C17_Witness ==
  /\ pc = "L99w"
  /\ flushCalls = 1
  /\ cutPc = "L55"
  /\ NamesOf(handed) = <<"db-query", "cache-lookup", "api-request">>

----------------------------------------------------------------------------
\* C18: provider.shutdown() is reached only through the except clause of line
\* 96, which only a KeyboardInterrupt enters.  A failure that is not a
\* KeyboardInterrupt ends the driver at once: lines 97-100 are not run, the
\* driver has not called shutdown and never does, and the spans handed over
\* before stay as they were, flushed by nothing the driver does.
C18_FlushOnlyOnCancellation ==
  /\ [](/\ flushCalls > 0 => (cutPc # "none" /\ sigs >= 1 /\ pc # "crashed")
        /\ pc = "crashed"
             => /\ flushCalls = 0 /\ flushResult = "none"
                /\ cutPc = "none"
                /\ \A i \in DOMAIN out :
                     out[i] \notin {"Shutting down...", "Done!"})
  /\ [][/\ flushCalls' # flushCalls => (pc = "L99" /\ cutPc # "none")
        /\ (pc' \in HandlerPcs /\ pc \notin HandlerPcs) => (exc /\ pc' = "L97")
        /\ (pc' = "crashed" /\ pc # "crashed")
             => (~exc /\ UNCHANGED <<handed, buffered, lost, flushCalls, flushResult>>)
        /\ pc = "crashed" => UNCHANGED vars]_vars

\* The driver failed after two trees were handed over; spans are still
\* buffered and shutdown was not called.
C18_Witness ==
  /\ pc = "crashed"
  /\ Len(handed) = 7
  /\ buffered
  /\ flushCalls = 0


----------------------------------------------------------------------------
\* The bounds of the simulated duration of a child span, by name.
Lo(n) ==
  CASE n = "db-query" -> DbMin
    [] n = "cache-lookup" -> CacheMin
    [] n = "fetch-data" -> FetchMin
    [] n = "process-data" -> ProcessMin
    [] n = "store-results" -> StoreMin

Hi(n) ==
  CASE n = "db-query" -> DbMax
    [] n = "cache-lookup" -> CacheMax
    [] n = "fetch-data" -> FetchMax
    [] n = "process-data" -> ProcessMax
    [] n = "store-results" -> StoreMax

\* This step ends the innermost open span; its duration is the time elapsed
\* since it started.
Closes == Len(handed') = Len(handed) + 1 /\ stack # <<>>
Duration == since[Len(since)]

\* C16 (as stated): every child span that is closed lasted a time within the
\* bound of its name, and no span ends before it starts.
C16_DurationWithinBound ==
  [][Closes => /\ Duration >= 0
               /\ Top.name \in ChildNames
                    => (Lo(Top.name) <= Duration /\ Duration <= Hi(Top.name))]_vars

\* C16 (amended): no span ends before it starts.  The bound is the bound of
\* the time asked of time.sleep(): a child span that ends on the normal path
\* lasted at least the lower bound of its name and exceeds the upper bound by
\* no more than the sleep returned late; a child span ended by a
\* KeyboardInterrupt can be shorter than the lower bound, down to 0.  A root
\* lasted at least as long as its children together.
C16_AtLeastLowerBoundUnlessCut ==
  [][Closes => /\ Duration >= 0
               /\ (Top.name \in ChildNames /\ ~exc)
                    => /\ Lo(Top.name) <= Duration
                       /\ Duration <= Hi(Top.name) + MaxLate
               /\ (Top.name \in ChildNames /\ exc)
                    => Duration <= Hi(Top.name) + MaxLate
               /\ (Top.name \notin ChildNames /\ ~exc)
                    => /\ Len(stack) = 1
                       /\ Duration >= (IF Top.name = "api-request"
                                       THEN DbMin + CacheMin
                                       ELSE FetchMin + ProcessMin + StoreMin)]_vars

\* db-query has ended on the normal path and was handed over; the time
\* elapsed in its root, all of it spent inside db-query, is above the upper
\* bound of db-query.
C16_Witness ==
  /\ pc = "L53"
  /\ ~exc
  /\ NamesOf(handed) = <<"db-query">>
  /\ since = <<DbMax + MaxLate>>

====
